---- MODULE Spec2Model ----
(***************************************************************************)
(* Model of packages/lane_following/src/lane_following_node.py.            *)
(*                                                                         *)
(* Three rospy threads touch a LaneFollowNode: the camera subscriber       *)
(* thread (callback, stopline_processing), the /general subscriber thread  *)
(* (general_callback) and the main thread (the __main__ loop calling       *)
(* drive).  Every thread is a program counter; one action is one step of   *)
(* the code between two points where another thread can interleave, so a   *)
(* handler is the chain of its steps and no step is optional.              *)
(*                                                                         *)
(* Numbers: speeds and gains are kept in thousandths (0.36 -> 360,         *)
(* 0.049 -> 49), pixel quantities are integers, angular velocity is an     *)
(* exact fraction <<numerator, denominator>> of thousandths.  An optional  *)
(* value is <<>> (None) or <<x>>.                                          *)
(***************************************************************************)
EXTENDS Integers, Sequences, FiniteSets, TLC

VARIABLES
    \* --- LaneFollowNode fields (lines 33-52, 73) ---
    proportional,       \* self.proportional: None or the lateral error
    stop_timer_reset,   \* self.stop_timer_reset
    prep_turn,          \* self.prep_turn
    lock,               \* self.lock: "free", or the thread holding it
    last_error,         \* self.last_error
    last_time,          \* self.last_time
    twist,              \* self.twist: [v, omega]
    continue_run,       \* self.continue_run (only ever written, line 73)
    \* --- collaborators whose code is outside this file ---
    bot_state,          \* state_machine.BotState
    controller,         \* deadreckoning.DeadReckoning
    is_shutdown,        \* rospy.is_shutdown()
    \* --- camera subscriber thread ---
    pcCb,               \* position inside callback / stopline_processing
    img,                \* the frame being processed
    cb_timer,           \* callback's local stop_timer_reset (line 84)
    \* --- main thread ---
    pcCtl,              \* position inside the __main__ loop / drive
    is_turning,         \* is_turning()'s local / return value (line 77)
    turn_idx,           \* drive's local turn_idx (line 137)
    pid,                \* drive's locals P and d_error (lines 159, 162)
    \* --- what the vehicle was last told ---
    lastCmd,            \* the last command emitted on any actuation topic
    \* --- history variables (observers, never read by the program) ---
    hist

vars == <<proportional, stop_timer_reset, prep_turn, lock, last_error, last_time,
          twist, continue_run, bot_state, controller, is_shutdown,
          pcCb, img, cb_timer, pcCtl, is_turning, turn_idx, pid, lastCmd, hist>>

nodeVars == <<proportional, stop_timer_reset, prep_turn, lock, last_error, last_time,
              twist, continue_run>>

-----------------------------------------------------------------------------
(* Program constants *)

STOP_TIMER_RESET_TIME == 60
offset == 220
velocity == 360
speed == 600
P == 49
D == -4
GOAL_STALL == 1

(* Model bounds *)

MaxTime == 1
MaxStops == 2
MaxRegions == 2

-----------------------------------------------------------------------------
(* Optional values *)

None == <<>>
Some(x) == <<x>>
IsNone(o) == o = <<>>
Val(o) == o[1]

Max(a, b) == IF a >= b THEN a ELSE b
Abs(a) == IF a < 0 THEN -a ELSE a

-----------------------------------------------------------------------------
(* Frames.  A decoded frame is what cv2 hands the two analyses: its width   *)
(* (im.shape[1]), the dilated red regions of stopline_processing, each     *)
(* with contourArea and boundingRect, and the road-coloured contours of    *)
(* the crop, each with contourArea and the centroid column int(m10/m00).   *)
(* contourArea is |m00|, so a contour that passes area > 20 has m00 # 0    *)
(* and the except branch of lines 116-124 is not taken.                    *)

Red(area, xmin, width, ymin, height) ==
    [area |-> area, xmin |-> xmin, width |-> width, ymin |-> ymin, height |-> height]
Road(area, cx) == [area |-> area, cx |-> cx]

StoplineAhead == << Red(5000, 200, 300, 400, 40) >>
RedScenes ==
    { <<>>,
      StoplineAhead,
      << Red(5000, 200, 300, 300, 40) >> }

OnTarget == << Road(500, 100) >>
OffTarget == << Road(500, 300) >>
RoadScenes ==
    { <<>>,
      OnTarget,
      OffTarget,
      << Road(10, 300) >> }

Frame(red, road) == [width |-> 640, red |-> red, road |-> road]
Frames == { Frame(r, l) : r \in RedScenes, l \in RoadScenes }
NoImg == [width |-> 0, red |-> <<>>, road |-> <<>>]

(* Lines 182-194: index of the largest region that is big enough and       *)
(* straddles the vertical centre line, 0 when there is none (largest_idx   *)
(* = -1).  `best` is largest_area, `idx` is largest_idx.                   *)
RECURSIVE LargestStopline(_, _, _, _, _)
LargestStopline(contours, w, i, best, idx) ==
    IF i > Len(contours) THEN idx
    ELSE LET c == contours[i]
             xmax == c.xmin + c.width
             take == /\ c.area > best
                     /\ c.area > 3000
                     /\ 2 * xmax > w
                     /\ 2 * c.xmin < w
         IN IF take THEN LargestStopline(contours, w, i + 1, c.area, i)
                    ELSE LargestStopline(contours, w, i + 1, best, idx)

(* Mutant of StoplineTrigger: the top edge of the region is compared. *)
StoplineTrigger_top_edge(im) ==
    LET idx == LargestStopline(im.red, im.width, 1, 0, 0)
        contour_y2 == IF idx # 0 THEN 2 * im.red[idx].ymin ELSE 0
    IN contour_y2 > 2 * 390

(* Lines 196-202: contour_y = ymin + height * 0.5 of that region (0 when   *)
(* there is none) compared with 390; both sides are doubled.               *)
StoplineTrigger(im) ==
    LET idx == LargestStopline(im.red, im.width, 1, 0, 0)
        contour_y2 == IF idx # 0 THEN 2 * im.red[idx].ymin + im.red[idx].height ELSE 0
    IN contour_y2 > 2 * 390

(* Lines 105-112: index of the largest road contour with area > 20, 0 when *)
(* there is none (max_idx = -1).                                           *)
RECURSIVE LargestRoad(_, _, _, _)
LargestRoad(contours, i, max_area, max_idx) ==
    IF i > Len(contours) THEN max_idx
    ELSE IF contours[i].area > max_area
         THEN LargestRoad(contours, i + 1, contours[i].area, i)
         ELSE LargestRoad(contours, i + 1, max_area, max_idx)

(* Mutant of LaneError: no road region gives None. *)
LaneError_none_when_absent(im) ==
    LET max_idx == LargestRoad(im.road, 1, 20, 0)
    IN IF max_idx # 0
       THEN Some(im.road[max_idx].cx - (im.width \div 2) + offset)
       ELSE None

(* Lines 114-126: the value callback stores in self.proportional.  The     *)
(* crop keeps the frame's width (line 97).                                 *)
LaneError(im) ==
    LET max_idx == LargestRoad(im.road, 1, 20, 0)
    IN IF max_idx # 0
       THEN Some(im.road[max_idx].cx - (im.width \div 2) + offset)
       ELSE Some(-100)

-----------------------------------------------------------------------------
(* threading.Lock *)

Acquire(t) == lock = "free" /\ lock' = t
Release(t) == lock' = "free"

(* History: what an observer of the run records.                           *)
(*   cbSinceTrig  callback invocations begun since the last trigger write  *)
(*                (saturating one above the cooldown; 0 before the    *)
(*                first trigger), triggered: a trigger was written         *)
(*   fresh        the last trigger was written outside a maneuver and no   *)
(*                maneuver has ended since                                 *)
(*   manCmds      timed drive commands emitted in the current maneuver     *)
(*   manClears    writes prep_turn = False in the current maneuver         *)
(*   maneuvers    maneuvers started so far                                 *)
(*   triggers     triggers written so far, leaving out those written       *)
(*                during a maneuver and those that repeat a trigger no     *)
(*                maneuver has consumed yet (so never more than the true   *)
(*                number of triggers)                                      *)
(*   tickAfterStop  the current tick of the loop began after 'stop'        *)
(*   error        the exception that ended the main thread                 *)
Saturate(n) == IF n > STOP_TIMER_RESET_TIME THEN STOP_TIMER_RESET_TIME + 1 ELSE n

-----------------------------------------------------------------------------
(* state_machine.BotState.  Its file is not part of the sources at hand;   *)
(* it is modelled from the design document: a goal plan indexed by the     *)
(* number of stop lines visited, and the flags callback reads.  What the   *)
(* document leaves open (an exhausted plan) is a choice over the readings  *)
(* it names.                                                               *)

LEFT == 0
STRAIGHT == 1
RIGHT == 2
TurnIds == {LEFT, STRAIGHT, RIGHT}
Unrecognized == RIGHT + 1

(* The plan of a goal is made by the missing file: either of these. *)
GoalPlans == { <<LEFT>>, <<LEFT, RIGHT, STRAIGHT>> }

BotState(goal, plan) ==
    [goal |-> goal, plan |-> plan, visited_stop_count |-> 0,
     lane_following |-> TRUE, is_expecting_red_stopline |-> TRUE]

get_lane_following_flag == bot_state.lane_following
get_flags == [is_expecting_red_stopline |-> bot_state.is_expecting_red_stopline]

(* The identifiers decide_turn_at_red_stopline may return: the planned     *)
(* turn; past the end of the plan, the last planned turn again or no       *)
(* recognized turn at all.                                                 *)
decide_turn_at_red_stopline ==
    IF bot_state.visited_stop_count < Len(bot_state.plan)
    THEN {bot_state.plan[bot_state.visited_stop_count + 1]}
    ELSE {bot_state.plan[Len(bot_state.plan)], Unrecognized}

(* The states advance_state may leave: one more stop visited; lane         *)
(* following again while the plan lasts; after the plan, either no         *)
(* terminal handling, or maneuvers disabled, or a DONE state.              *)
advance_state ==
    LET n == bot_state.visited_stop_count + 1
    IN IF n < Len(bot_state.plan)
       THEN {[bot_state EXCEPT !.visited_stop_count = n]}
       ELSE {[bot_state EXCEPT !.visited_stop_count = n,
                               !.lane_following = lf,
                               !.is_expecting_red_stopline = ex]
              : <<lf, ex>> \in {<<TRUE, TRUE>>, <<TRUE, FALSE>>, <<FALSE, FALSE>>}}

-----------------------------------------------------------------------------
(* The camera subscriber thread: callback (lines 81-130) and               *)
(* stopline_processing (lines 174-206).  rospy runs one callback of a      *)
(* subscription at a time; a frame with a stop line in it is delivered     *)
(* only until the plan's stop lines and MaxStops - 1 more have been        *)
(* visited.                                                                *)

InManeuver ==
    \/ pcCtl = "it_unlock" /\ is_turning
    \/ pcCtl \in {"m_stop", "m_reset", "m_decide", "m_advance", "m_fwd", "m_turn",
                  "c_lock", "c_write", "c_unlock"}

cbUnchanged == <<last_error, last_time, twist, continue_run, bot_state, controller,
                 is_shutdown, pcCtl, is_turning, turn_idx, pid, lastCmd>>

(* A frame of the scenes in view arrives and callback is entered. *)
CameraFrame(scenes) ==
    /\ pcCb = "idle"
    /\ ~is_shutdown
    /\ \E f \in scenes :
          /\ StoplineTrigger(f) =>
                bot_state.visited_stop_count < Len(bot_state.plan) + MaxStops - 1
          /\ img' = f
    /\ pcCb' = "t_lock"
    /\ UNCHANGED <<proportional, stop_timer_reset, prep_turn, lock, cb_timer, hist>>
    /\ UNCHANGED cbUnchanged

(* line 83 *)
cb_timer_acquire ==
    /\ pcCb = "t_lock"
    /\ Acquire("cb")
    /\ pcCb' = "t_rw"
    /\ UNCHANGED <<proportional, stop_timer_reset, prep_turn, img, cb_timer, hist>>
    /\ UNCHANGED cbUnchanged

(* Mutant of cb_timer_update: the decrement has no floor. *)
cb_timer_update_no_floor ==
    /\ pcCb = "t_rw"
    /\ cb_timer' = stop_timer_reset
    /\ stop_timer_reset' = stop_timer_reset - 1
    /\ hist' = [hist EXCEPT !.cbSinceTrig = IF hist.triggered THEN Saturate(@ + 1) ELSE 0]
    /\ pcCb' = "t_unlock"
    /\ UNCHANGED <<proportional, prep_turn, lock, img>>
    /\ UNCHANGED cbUnchanged

(* lines 84-85 *)
cb_timer_update ==
    /\ pcCb = "t_rw"
    /\ cb_timer' = stop_timer_reset
    /\ stop_timer_reset' = Max(0, stop_timer_reset - 1)
    /\ hist' = [hist EXCEPT !.cbSinceTrig = IF hist.triggered THEN Saturate(@ + 1) ELSE 0]
    /\ pcCb' = "t_unlock"
    /\ UNCHANGED <<proportional, prep_turn, lock, img>>
    /\ UNCHANGED cbUnchanged

(* Mutant of cb_timer_release: callback goes on without releasing. *)
cb_timer_release_forgotten ==
    /\ pcCb = "t_unlock"
    /\ pcCb' = "flag"
    /\ UNCHANGED <<proportional, stop_timer_reset, prep_turn, lock, img, cb_timer, hist>>
    /\ UNCHANGED cbUnchanged

(* line 86 *)
cb_timer_release ==
    /\ pcCb = "t_unlock"
    /\ Release("cb")
    /\ pcCb' = "flag"
    /\ UNCHANGED <<proportional, stop_timer_reset, prep_turn, img, cb_timer, hist>>
    /\ UNCHANGED cbUnchanged

(* lines 87-89 *)
cb_lane_following_flag ==
    /\ pcCb = "flag"
    /\ IF ~get_lane_following_flag
       THEN /\ proportional' = None
            /\ pcCb' = "ret"
       ELSE /\ pcCb' = "gate"
            /\ UNCHANGED proportional
    /\ UNCHANGED <<stop_timer_reset, prep_turn, lock, img, cb_timer, hist>>
    /\ UNCHANGED cbUnchanged

(* Mutant of cb_stopline_gate: the cooldown is not consulted. *)
cb_stopline_gate_no_cooldown ==
    /\ pcCb = "gate"
    /\ pcCb' = IF get_flags.is_expecting_red_stopline THEN "stopline" ELSE "lane"
    /\ UNCHANGED <<proportional, stop_timer_reset, prep_turn, lock, img, cb_timer, hist>>
    /\ UNCHANGED cbUnchanged

(* lines 91-94: the cooldown gate in front of stopline_processing *)
cb_stopline_gate ==
    /\ pcCb = "gate"
    /\ pcCb' = IF cb_timer = 0 /\ get_flags.is_expecting_red_stopline
               THEN "stopline" ELSE "lane"
    /\ UNCHANGED <<proportional, stop_timer_reset, prep_turn, lock, img, cb_timer, hist>>
    /\ UNCHANGED cbUnchanged

(* lines 175-202: the analysis and its decision *)
stopline_processing ==
    /\ pcCb = "stopline"
    /\ pcCb' = IF StoplineTrigger(img) THEN "s_lock" ELSE "lane"
    /\ UNCHANGED <<proportional, stop_timer_reset, prep_turn, lock, img, cb_timer, hist>>
    /\ UNCHANGED cbUnchanged

(* Mutant of stopline_acquire: the trigger is written without the lock. *)
stopline_acquire_no_lock ==
    /\ pcCb = "s_lock"
    /\ pcCb' = "s_w1"
    /\ UNCHANGED <<proportional, stop_timer_reset, prep_turn, lock, img, cb_timer, hist>>
    /\ UNCHANGED cbUnchanged

(* line 203 *)
stopline_acquire ==
    /\ pcCb = "s_lock"
    /\ Acquire("cb")
    /\ pcCb' = "s_w1"
    /\ UNCHANGED <<proportional, stop_timer_reset, prep_turn, img, cb_timer, hist>>
    /\ UNCHANGED cbUnchanged

(* line 204 *)
stopline_reset_timer ==
    /\ pcCb = "s_w1"
    /\ stop_timer_reset' = STOP_TIMER_RESET_TIME
    /\ pcCb' = "s_w2"
    /\ UNCHANGED <<proportional, prep_turn, lock, img, cb_timer, hist>>
    /\ UNCHANGED cbUnchanged

(* line 205 *)
stopline_set_prep_turn ==
    /\ pcCb = "s_w2"
    /\ prep_turn' = TRUE
    /\ hist' = [hist EXCEPT !.cbSinceTrig = 0,
                            !.triggered = TRUE,
                            !.fresh = ~InManeuver,
                            !.triggers = IF ~InManeuver /\ ~hist.fresh
                                         THEN @ + 1 ELSE @]
    /\ pcCb' = "s_unlock"
    /\ UNCHANGED <<proportional, stop_timer_reset, lock, img, cb_timer>>
    /\ UNCHANGED cbUnchanged

(* line 206 *)
stopline_release ==
    /\ pcCb = "s_unlock"
    /\ Release("cb")
    /\ pcCb' = "lane"
    /\ UNCHANGED <<proportional, stop_timer_reset, prep_turn, img, cb_timer, hist>>
    /\ UNCHANGED cbUnchanged

(* lines 96-126: the lane search and the write of self.proportional *)
cb_lane ==
    /\ pcCb = "lane"
    /\ proportional' = LaneError(img)
    /\ pcCb' = "ret"
    /\ UNCHANGED <<stop_timer_reset, prep_turn, lock, img, cb_timer, hist>>
    /\ UNCHANGED cbUnchanged

(* callback returns; its frame and locals are gone *)
cb_return ==
    /\ pcCb = "ret"
    /\ pcCb' = "idle"
    /\ img' = NoImg
    /\ cb_timer' = 0
    /\ UNCHANGED <<proportional, stop_timer_reset, prep_turn, lock, hist>>
    /\ UNCHANGED cbUnchanged

callback ==
    \/ cb_timer_acquire \/ cb_timer_update \/ cb_timer_release
    \/ cb_lane_following_flag \/ cb_stopline_gate \/ stopline_processing
    \/ stopline_acquire \/ stopline_reset_timer \/ stopline_set_prep_turn
    \/ stopline_release \/ cb_lane \/ cb_return

-----------------------------------------------------------------------------
(* Commands.  A Twist2DStamped published on car_cmd_switch_node/cmd is     *)
(* [v, omega]; a command of the dead-reckoning controller is a pair of     *)
(* wheel speeds held for a number of ticks.                                *)

Cmd(kind, a, b, c, d) == [kind |-> kind, a |-> a, b |-> b, c |-> c, d |-> d]
NoCmd == Cmd("none", 0, 0, 1, 0)
TwistCmd(tw) == Cmd("twist", tw.v, tw.omega[1], tw.omega[2], 0)
WheelsCmd(left, right, ticks) == Cmd("wheels", left, right, 1, ticks)
StopCmd(ticks) == Cmd("stop", 0, 0, 1, ticks)

IsZeroVelocity(c) ==
    \/ c.kind = "stop"
    \/ c.kind = "twist" /\ c.a = 0 /\ c.b = 0
    \/ c.kind = "wheels" /\ c.a = 0 /\ c.b = 0

(* deadreckoning.DeadReckoning.  Its file is not part of the sources at    *)
(* hand; modelled from the design document: stop commands a full stop,     *)
(* reset_position zeroes the odometry accumulator, driveForTime emits one  *)
(* differential-drive command for a duration (and moves the vehicle),      *)
(* set_turn_flag keeps a flag of the controller.                           *)
DeadReckoning == [turn_flag |-> FALSE, pose |-> "zero"]
controller_stop(ticks) ==
    /\ lastCmd' = StopCmd(ticks)
    /\ UNCHANGED controller
controller_reset_position ==
    /\ controller' = [controller EXCEPT !.pose = "zero"]
    /\ UNCHANGED lastCmd
(* The second triple of each turn profile, lines 143-148. *)
TurnSegment(idx) ==
    IF idx = LEFT THEN <<(58 * speed) \div 100, (142 * speed) \div 100, 40>>
    ELSE IF idx = STRAIGHT THEN <<(90 * speed) \div 100, (110 * speed) \div 100, 75>>
    ELSE <<(147 * speed) \div 100, (53 * speed) \div 100, 15>>

-----------------------------------------------------------------------------
(* The main thread: the __main__ loop (lines 217-222), drive (132-172),    *)
(* is_turning (75-79).                                                     *)

NoPid == [P |-> 0, d_error |-> <<0, 1>>]
ctlUnchanged == <<stop_timer_reset, continue_run, pcCb, img, cb_timer>>

(* An exception leaves drive and the loop: the process ends. *)
Raise(e) ==
    /\ pcCtl' = "crashed"
    /\ is_shutdown' = TRUE
    /\ hist' = [hist EXCEPT !.error = e]

(* line 220, and rate.sleep() of the tick before it *)
main_loop ==
    /\ pcCtl = "loop"
    /\ pcCtl' = IF is_shutdown THEN "exited" ELSE "it_lock"
    /\ hist' = [hist EXCEPT !.tickAfterStop = ~continue_run]
    /\ UNCHANGED <<proportional, prep_turn, lock, last_error, last_time, twist,
                   bot_state, controller, is_shutdown, is_turning, turn_idx, pid, lastCmd>>
    /\ UNCHANGED ctlUnchanged

(* line 76 *)
is_turning_acquire ==
    /\ pcCtl = "it_lock"
    /\ Acquire("ctl")
    /\ pcCtl' = "it_read"
    /\ UNCHANGED <<proportional, prep_turn, last_error, last_time, twist,
                   bot_state, controller, is_shutdown, is_turning, turn_idx, pid,
                   lastCmd, hist>>
    /\ UNCHANGED ctlUnchanged

(* Mutant of is_turning_read: is_turning answers True whatever the flag. *)
is_turning_read_always ==
    /\ pcCtl = "it_read"
    /\ is_turning' = TRUE
    /\ pcCtl' = "it_unlock"
    /\ UNCHANGED <<proportional, prep_turn, lock, last_error, last_time, twist,
                   bot_state, controller, is_shutdown, turn_idx, pid, lastCmd, hist>>
    /\ UNCHANGED ctlUnchanged

(* line 77 *)
is_turning_read ==
    /\ pcCtl = "it_read"
    /\ is_turning' = prep_turn
    /\ pcCtl' = "it_unlock"
    /\ UNCHANGED <<proportional, prep_turn, lock, last_error, last_time, twist,
                   bot_state, controller, is_shutdown, turn_idx, pid, lastCmd, hist>>
    /\ UNCHANGED ctlUnchanged

(* lines 78-79 and the branch of line 133 *)
is_turning_release ==
    /\ pcCtl = "it_unlock"
    /\ Release("ctl")
    /\ pcCtl' = IF is_turning THEN "m_stop" ELSE "pid_test"
    /\ hist' = [hist EXCEPT !.maneuvers = IF is_turning THEN @ + 1 ELSE @]
    /\ UNCHANGED <<proportional, prep_turn, last_error, last_time, twist,
                   bot_state, controller, is_shutdown, is_turning, turn_idx, pid,
                   lastCmd>>
    /\ UNCHANGED ctlUnchanged

(* line 134 *)
drive_stop ==
    /\ pcCtl = "m_stop"
    /\ controller_stop(20)
    /\ pcCtl' = "m_reset"
    /\ UNCHANGED <<proportional, prep_turn, lock, last_error, last_time, twist,
                   bot_state, is_shutdown, is_turning, turn_idx, pid, hist>>
    /\ UNCHANGED ctlUnchanged

(* Mutant of drive_reset_position: the accumulator is left as it is. *)
drive_reset_position_skipped ==
    /\ pcCtl = "m_reset"
    /\ pcCtl' = "m_decide"
    /\ UNCHANGED <<proportional, prep_turn, lock, last_error, last_time, twist,
                   bot_state, controller, is_shutdown, is_turning, turn_idx, pid,
                   lastCmd, hist>>
    /\ UNCHANGED ctlUnchanged

(* line 135 *)
drive_reset_position ==
    /\ pcCtl = "m_reset"
    /\ controller_reset_position
    /\ pcCtl' = "m_decide"
    /\ UNCHANGED <<proportional, prep_turn, lock, last_error, last_time, twist,
                   bot_state, is_shutdown, is_turning, turn_idx, pid, hist>>
    /\ UNCHANGED ctlUnchanged

(* Mutant of drive_decide_turn: the decision is not asked for. *)
drive_decide_turn_skipped ==
    /\ pcCtl = "m_decide"
    /\ pcCtl' = "m_advance"
    /\ UNCHANGED <<proportional, prep_turn, lock, last_error, last_time, twist,
                   bot_state, controller, is_shutdown, is_turning, turn_idx, pid,
                   lastCmd, hist>>
    /\ UNCHANGED ctlUnchanged

(* line 137 *)
drive_decide_turn ==
    /\ pcCtl = "m_decide"
    /\ turn_idx' \in decide_turn_at_red_stopline
    /\ pcCtl' = "m_advance"
    /\ UNCHANGED <<proportional, prep_turn, lock, last_error, last_time, twist,
                   bot_state, controller, is_shutdown, is_turning, pid, lastCmd, hist>>
    /\ UNCHANGED ctlUnchanged

(* lines 138-139 *)
drive_advance_state ==
    /\ pcCtl = "m_advance"
    /\ bot_state' \in advance_state
    /\ pcCtl' = "m_fwd"
    /\ UNCHANGED <<proportional, prep_turn, lock, last_error, last_time, twist,
                   controller, is_shutdown, is_turning, turn_idx, pid, lastCmd, hist>>
    /\ UNCHANGED ctlUnchanged

(* lines 141-142 (speeds in thousandths) *)
drive_forward ==
    /\ pcCtl = "m_fwd"
    /\ lastCmd' = WheelsCmd(600, 600, 6)
    /\ controller' = [controller EXCEPT !.turn_flag = TRUE, !.pose = "moved"]
    /\ hist' = [hist EXCEPT !.manCmds = @ + 1]
    /\ pcCtl' = "m_turn"
    /\ UNCHANGED <<proportional, prep_turn, lock, last_error, last_time, twist,
                   bot_state, is_shutdown, is_turning, turn_idx, pid>>
    /\ UNCHANGED ctlUnchanged

(* Mutant of drive_turn: the left turn is driven whatever turn_idx is. *)
drive_turn_always_left ==
    /\ pcCtl = "m_turn"
    /\ lastCmd' = WheelsCmd(TurnSegment(LEFT)[1], TurnSegment(LEFT)[2],
                            TurnSegment(LEFT)[3])
    /\ hist' = [hist EXCEPT !.manCmds = @ + 1]
    /\ controller' = [controller EXCEPT !.turn_flag = FALSE]
    /\ pcCtl' = "c_lock"
    /\ UNCHANGED <<proportional, prep_turn, lock, last_error, last_time, twist,
                   bot_state, is_shutdown, is_turning, turn_idx, pid>>
    /\ UNCHANGED ctlUnchanged

(* lines 143-149: no branch is taken for a turn_idx other than 0, 1, 2 *)
drive_turn ==
    /\ pcCtl = "m_turn"
    /\ IF turn_idx \in {0, 1, 2}
       THEN /\ lastCmd' = WheelsCmd(TurnSegment(turn_idx)[1], TurnSegment(turn_idx)[2],
                                    TurnSegment(turn_idx)[3])
            /\ hist' = [hist EXCEPT !.manCmds = @ + 1]
       ELSE UNCHANGED <<lastCmd, hist>>
    /\ controller' = [controller EXCEPT !.turn_flag = FALSE]
    /\ pcCtl' = "c_lock"
    /\ UNCHANGED <<proportional, prep_turn, lock, last_error, last_time, twist,
                   bot_state, is_shutdown, is_turning, turn_idx, pid>>
    /\ UNCHANGED ctlUnchanged

(* line 151 *)
drive_clear_acquire ==
    /\ pcCtl = "c_lock"
    /\ Acquire("ctl")
    /\ pcCtl' = "c_write"
    /\ UNCHANGED <<proportional, prep_turn, last_error, last_time, twist,
                   bot_state, controller, is_shutdown, is_turning, turn_idx, pid,
                   lastCmd, hist>>
    /\ UNCHANGED ctlUnchanged

(* Mutant of drive_clear_prep_turn: the flag is left set. *)
drive_clear_prep_turn_forgotten ==
    /\ pcCtl = "c_write"
    /\ pcCtl' = "c_unlock"
    /\ UNCHANGED <<proportional, prep_turn, lock, last_error, last_time, twist,
                   bot_state, controller, is_shutdown, is_turning, turn_idx, pid,
                   lastCmd, hist>>
    /\ UNCHANGED ctlUnchanged

(* line 152 *)
drive_clear_prep_turn ==
    /\ pcCtl = "c_write"
    /\ prep_turn' = FALSE
    /\ hist' = [hist EXCEPT !.manClears = @ + 1]
    /\ pcCtl' = "c_unlock"
    /\ UNCHANGED <<proportional, lock, last_error, last_time, twist,
                   bot_state, controller, is_shutdown, is_turning, turn_idx, pid, lastCmd>>
    /\ UNCHANGED ctlUnchanged

(* line 153; the maneuver branch of drive ends here *)
drive_clear_release ==
    /\ pcCtl = "c_unlock"
    /\ Release("ctl")
    /\ hist' = [hist EXCEPT !.fresh = FALSE, !.manCmds = 0, !.manClears = 0]
    /\ pcCtl' = "loop"
    /\ is_turning' = FALSE
    /\ turn_idx' = 0
    /\ UNCHANGED <<proportional, prep_turn, last_error, last_time, twist,
                   bot_state, controller, is_shutdown, pid, lastCmd>>
    /\ UNCHANGED ctlUnchanged

(* rospy.get_time().  The clock is outside the program and the program   *)
(* uses a reading only in the difference with self.last_time (line 162),  *)
(* so readings are counted from the reading last stored there: last_time  *)
(* is the origin 0, and a reading is the time elapsed since, which is     *)
(* zero when the clock stood still and negative when it stepped back.     *)
Times == (0 - MaxTime) .. MaxTime

(* A fraction in lowest terms with a positive denominator. *)
RECURSIVE Gcd(_, _)
Gcd(a, b) == IF b = 0 THEN a ELSE Gcd(b, a % b)
Frac(num, den) ==
    LET g == Gcd(Abs(num), Abs(den))
        sgn == IF den < 0 THEN -1 ELSE 1
    IN <<(sgn * num) \div g, (sgn * den) \div g>>

(* line 168: P + D, with D = d_error * self.D and d_error = num / den *)
Omega(Pterm, d_error) == Frac(Pterm * d_error[2] + d_error[1] * D, d_error[2])

(* Mutant of drive_pid_test: on None the previous output is published. *)
drive_pid_test_keeps_output ==
    /\ pcCtl = "pid_test"
    /\ IF IsNone(proportional)
       THEN /\ lastCmd' = TwistCmd(twist)
            /\ pcCtl' = "loop"
            /\ UNCHANGED twist
       ELSE /\ pcCtl' = "pid_P"
            /\ UNCHANGED <<twist, lastCmd>>
    /\ UNCHANGED <<proportional, prep_turn, lock, last_error, last_time,
                   bot_state, controller, is_shutdown, is_turning, turn_idx, pid, hist>>
    /\ UNCHANGED ctlUnchanged

(* line 155; on None lines 156 and 172, and drive returns *)
drive_pid_test ==
    /\ pcCtl = "pid_test"
    /\ IF IsNone(proportional)
       THEN /\ twist' = [twist EXCEPT !.omega = <<0, 1>>]
            /\ lastCmd' = TwistCmd(twist')
            /\ pcCtl' = "loop"
       ELSE /\ pcCtl' = "pid_P"
            /\ UNCHANGED <<twist, lastCmd>>
    /\ UNCHANGED <<proportional, prep_turn, lock, last_error, last_time,
                   bot_state, controller, is_shutdown, is_turning, turn_idx, pid, hist>>
    /\ UNCHANGED ctlUnchanged

(* line 159: -None raises TypeError *)
drive_pid_P ==
    /\ pcCtl = "pid_P"
    /\ IF IsNone(proportional)
       THEN /\ Raise("TypeError")
            /\ UNCHANGED pid
       ELSE /\ pid' = [pid EXCEPT !.P = -Val(proportional) * P]
            /\ pcCtl' = "pid_D"
            /\ UNCHANGED <<is_shutdown, hist>>
    /\ UNCHANGED <<proportional, prep_turn, lock, last_error, last_time, twist,
                   bot_state, controller, is_turning, turn_idx, lastCmd>>
    /\ UNCHANGED ctlUnchanged

(* line 162: the subtraction raises TypeError on None, the division        *)
(* raises ZeroDivisionError on an interval of zero                         *)
drive_pid_D ==
    /\ pcCtl = "pid_D"
    /\ \E now \in Times :
          IF IsNone(proportional) \/ IsNone(last_error)
          THEN /\ Raise("TypeError")
               /\ UNCHANGED pid
          ELSE IF now - last_time = 0
          THEN /\ Raise("ZeroDivisionError")
               /\ UNCHANGED pid
          ELSE /\ pid' = [pid EXCEPT !.d_error =
                              Frac(Val(proportional) - Val(last_error), now - last_time)]
               /\ pcCtl' = "pid_le"
               /\ UNCHANGED <<is_shutdown, hist>>
    /\ UNCHANGED <<proportional, prep_turn, lock, last_error, last_time, twist,
                   bot_state, controller, is_turning, turn_idx, lastCmd>>
    /\ UNCHANGED ctlUnchanged

(* line 163 *)
drive_pid_last_error ==
    /\ pcCtl = "pid_le"
    /\ last_error' = proportional
    /\ pcCtl' = "pid_out"
    /\ UNCHANGED <<proportional, prep_turn, lock, last_time, twist,
                   bot_state, controller, is_shutdown, is_turning, turn_idx, pid,
                   lastCmd, hist>>
    /\ UNCHANGED ctlUnchanged

(* lines 164-172: the rest of the branch touches only what the main       *)
(* thread owns; drive returns.  Line 164 stores a new reading, which       *)
(* becomes the origin of the readings after it.                            *)
drive_pid_out ==
    /\ pcCtl = "pid_out"
    /\ last_time' = 0
    /\ twist' = [v |-> velocity, omega |-> Omega(pid.P, pid.d_error)]
    /\ lastCmd' = TwistCmd(twist')
    /\ pid' = NoPid
    /\ pcCtl' = "loop"
    /\ UNCHANGED <<proportional, prep_turn, lock, last_error,
                   bot_state, controller, is_shutdown, is_turning, turn_idx, hist>>
    /\ UNCHANGED ctlUnchanged

drive ==
    \/ is_turning_acquire \/ is_turning_read \/ is_turning_release
    \/ drive_stop \/ drive_reset_position \/ drive_decide_turn \/ drive_advance_state
    \/ drive_forward \/ drive_turn
    \/ drive_clear_acquire \/ drive_clear_prep_turn \/ drive_clear_release
    \/ drive_pid_test \/ drive_pid_P \/ drive_pid_D \/ drive_pid_last_error
    \/ drive_pid_out

-----------------------------------------------------------------------------
(* The /general subscriber thread: general_callback (lines 69-73).         *)
(* rospy delivers no message once the node is shut down.                   *)

Messages == {"shutdown", "stop", "go"}

general_callback ==
    /\ ~is_shutdown
    /\ \E data \in Messages :
          IF data = "shutdown"
          THEN /\ is_shutdown' = TRUE
               /\ UNCHANGED continue_run
          ELSE IF data = "stop"
          THEN /\ continue_run' = FALSE
               /\ UNCHANGED is_shutdown
          ELSE UNCHANGED <<continue_run, is_shutdown>>
    /\ UNCHANGED <<proportional, stop_timer_reset, prep_turn, lock, last_error,
                   last_time, twist, bot_state, controller, pcCb, img, cb_timer,
                   pcCtl, is_turning, turn_idx, pid, lastCmd, hist>>

(* hook (lines 208-214) publishes nine zero-velocity commands.  No line    *)
(* of the file passes it to rospy.on_shutdown, and DTROS calls a method    *)
(* named on_shutdown, so no thread ever runs it: it is not part of Next.   *)
hook ==
    /\ twist' = [v |-> 0, omega |-> <<0, 1>>]
    /\ lastCmd' = TwistCmd(twist')
    /\ UNCHANGED <<proportional, stop_timer_reset, prep_turn, lock, last_error,
                   last_time, continue_run, bot_state, controller, is_shutdown,
                   pcCb, img, cb_timer, pcCtl, is_turning, turn_idx, pid, hist>>

-----------------------------------------------------------------------------
(* __init__ (lines 26-67) and the start of __main__ *)

Init ==
    /\ proportional = None
    /\ stop_timer_reset = 0
    /\ prep_turn = FALSE
    /\ lock = "free"
    /\ last_error = Some(0)
    /\ last_time = 0
    /\ twist = [v |-> velocity, omega |-> <<0, 1>>]
    /\ continue_run = TRUE
    /\ bot_state \in { BotState(GOAL_STALL, plan) : plan \in GoalPlans }
    /\ controller = DeadReckoning
    /\ is_shutdown = FALSE
    /\ pcCb = "idle"
    /\ img = NoImg
    /\ cb_timer = 0
    /\ pcCtl = "loop"
    /\ is_turning = FALSE
    /\ turn_idx = 0
    /\ pid = NoPid
    /\ lastCmd = NoCmd
    /\ hist = [cbSinceTrig |-> 0, triggered |-> FALSE, fresh |-> FALSE,
               manCmds |-> 0, manClears |-> 0, maneuvers |-> 0, triggers |-> 0,
               tickAfterStop |-> FALSE,
               error |-> "none"]

Next == CameraFrame(Frames) \/ callback \/ main_loop \/ drive \/ general_callback

Spec == Init /\ [][Next]_vars

(* Two scenarios of Spec, each with the inputs the other leaves out held   *)
(* still.                                                                  *)
(*   SpecStopline: the goal's plan is a single turn, the road has stop     *)
(*   lines on it and the lane stays on target (lateral error 0); nothing   *)
(*   arrives on /general.                                                  *)
(*   SpecLane: no stop line comes close enough to trigger, so no maneuver  *)
(*   starts; every lane scene, every clock reading and every /general      *)
(*   message occurs.                                                       *)
StoplineFrames == { Frame(r, OnTarget) : r \in {<<>>, StoplineAhead} }
LaneFrames == { f \in Frames : ~StoplineTrigger(f) /\ f.road # OnTarget }

InitStopline == Init /\ bot_state.plan = <<LEFT>>

NextStopline == CameraFrame(StoplineFrames) \/ callback \/ main_loop \/ drive

SpecStopline == InitStopline /\ [][NextStopline]_vars

NextLane ==
    \/ CameraFrame(LaneFrames)
    \/ cb_timer_acquire \/ cb_timer_update \/ cb_timer_release
    \/ cb_lane_following_flag \/ cb_stopline_gate \/ stopline_processing
    \/ cb_lane \/ cb_return
    \/ main_loop
    \/ is_turning_acquire \/ is_turning_read \/ is_turning_release
    \/ drive_pid_test \/ drive_pid_P \/ drive_pid_D \/ drive_pid_last_error
    \/ drive_pid_out
    \/ general_callback

SpecLane == Init /\ [][NextLane]_vars

(*   SpecTerminal: the single-turn plan again, with the stop line always   *)
(*   in view and the lane off target, so that the loop steers before the   *)
(*   plan is exhausted and meets whatever the exhausted plan leaves.       *)
TerminalFrames == { Frame(StoplineAhead, OffTarget) }

NextTerminal == CameraFrame(TerminalFrames) \/ callback \/ main_loop \/ drive

SpecTerminal == InitStopline /\ [][NextTerminal]_vars

(*   SpecPlan: the three-turn plan, with stop lines on the road and the    *)
(*   lane on target.                                                       *)
InitPlan == Init /\ bot_state.plan = <<LEFT, RIGHT, STRAIGHT>>

SpecPlan == InitPlan /\ [][NextStopline]_vars

(*   SpecVision: the camera thread on its own, while the main thread is    *)
(*   not scheduled; the red mask shows every scene of up to MaxRegions     *)
(*   regions of the pool: large and small, across the centre line, left    *)
(*   or right of it or just touching it, near, far and exactly on the      *)
(*   threshold row.                                                        *)
RegionPool ==
    { Red(5000, 200, 300, 400, 40),
      Red(5000, 200, 300, 380, 40),
      Red(8000, 200, 300, 300, 40),
      Red(8000, 200, 300, 370, 40),
      Red(8000, 200, 300, 400, 40),
      Red(2000, 200, 300, 400, 40),
      Red(8000, 0, 100, 400, 40),
      Red(8000, 400, 100, 400, 40),
      Red(8000, 220, 100, 400, 40) }
VisionScenes == UNION { [1 .. k -> RegionPool] : k \in 0 .. MaxRegions }
VisionFrames == { Frame(r, OnTarget) : r \in VisionScenes }

NextVision == CameraFrame(VisionFrames) \/ callback

SpecVision == InitStopline /\ [][NextVision]_vars

-----------------------------------------------------------------------------
(* Steps the properties speak of *)

TriggerRaised == ~prep_turn /\ prep_turn'
ClearStep == pcCtl = "c_write" /\ pcCtl' = "c_unlock"
ManeuverEnds == pcCtl = "c_unlock" /\ pcCtl' = "loop"
ObservesTrigger == pcCtl = "it_read" /\ pcCtl' = "it_unlock" /\ is_turning'
AnalysisInvoked == pcCb = "gate" /\ pcCb' = "stopline"
Publishes == pcCtl \in {"pid_test", "pid_out"} /\ pcCtl' = "loop"
LaneStep == pcCb = "lane" /\ pcCb' = "ret"
ExpectedCmds == IF turn_idx \in {0, 1, 2} THEN 2 ELSE 1
NoRoad(im) == LargestRoad(im.road, 1, 20, 0) = 0

-----------------------------------------------------------------------------
(* C1: the stop-line trigger is debounced: once a trigger has been        *)
(* written, prep_turn does not go from false to true again before the     *)
(* callback has been invoked STOP_TIMER_RESET_TIME times, whatever drive   *)
(* does in between (it may have cleared prep_turn long before).            *)
C1_Debounced ==
    [][ TriggerRaised =>
          (hist.triggered => hist.cbSinceTrig >= STOP_TIMER_RESET_TIME) ]_vars

(* A second trigger-eligible frame got past the gate inside the cooldown   *)
(* window, after drive had consumed the first trigger, and raised nothing. *)
C1_Witness ==
    /\ pcCb = "lane"
    /\ StoplineTrigger(img)
    /\ cb_timer > 0
    /\ hist.triggered
    /\ hist.cbSinceTrig < STOP_TIMER_RESET_TIME
    /\ bot_state.visited_stop_count = 1
    /\ ~prep_turn

(* C2 as the document states it: prep_turn is cleared once per consumed    *)
(* trigger, under the lock, at maneuver start, before any timed drive      *)
(* command of the maneuver, and a trigger drive observes was raised        *)
(* after the previous maneuver.                                            *)
C2_ClearedAtManeuverStart ==
    [][ /\ ClearStep => (lock = "ctl" /\ hist.manClears = 0 /\ hist.manCmds = 0)
        /\ ObservesTrigger => hist.fresh ]_vars

(* C2 amended: prep_turn goes back to false only in drive's clear, which   *)
(* runs under the lock once per maneuver, at the maneuver's end, after     *)
(* all its timed drive commands; and a trigger drive observes at the       *)
(* start of a tick was written after the previous maneuver ended.          *)
C2_ClearedAtManeuverEnd ==
    [][ /\ (prep_turn /\ ~prep_turn') => ClearStep
        /\ ClearStep => (lock = "ctl" /\ hist.manClears = 0
                         /\ hist.manCmds = ExpectedCmds)
        /\ ManeuverEnds => (hist.manClears = 1 /\ ~prep_turn)
        /\ ObservesTrigger => hist.fresh ]_vars

(* A trigger written while the maneuver was running has just been wiped    *)
(* by the clear at the maneuver's end.                                     *)
C2_Witness ==
    /\ pcCtl = "c_unlock"
    /\ ~prep_turn
    /\ hist.manClears = 1
    /\ hist.manCmds = 2
    /\ hist.triggered
    /\ ~hist.fresh
    /\ stop_timer_reset = STOP_TIMER_RESET_TIME

(* C3: while drive is inside a maneuver, no step of callback invokes the   *)
(* stop-line analysis, raises prep_turn or resets stop_timer_reset.        *)
C3_SuppressedDuringManeuver ==
    [][ InManeuver =>
          /\ ~AnalysisInvoked
          /\ ~(pcCb = "s_w1" /\ pcCb' = "s_w2")
          /\ ~(pcCb = "s_w2" /\ pcCb' = "s_unlock") ]_vars

(* C4: the two writes of a trigger are one critical section: between the   *)
(* write of stop_timer_reset and the write of prep_turn the callback       *)
(* holds the lock, and no reader is inside its own locked read (the main   *)
(* thread in is_turning or in its clear, the callback in its timer read).  *)
C4_TriggerAtomic ==
    /\ pcCb \in {"s_w1", "s_w2", "s_unlock"} => lock = "cb"
    /\ pcCb = "s_w2" => pcCtl \notin {"it_read", "it_unlock", "c_write", "c_unlock"}
    /\ pcCtl \in {"it_read", "it_unlock", "c_write", "c_unlock"} => lock = "ctl"
    /\ pcCb \in {"t_rw", "t_unlock"} => lock = "cb"

(* The trigger is half written (timer reset, prep_turn still false) while  *)
(* the main thread waits at the lock of is_turning.                        *)
C4_Witness ==
    /\ pcCb = "s_w2"
    /\ stop_timer_reset = STOP_TIMER_RESET_TIME
    /\ ~prep_turn
    /\ pcCtl = "it_lock"

(* C5: every change of proportional, stop_timer_reset or prep_turn is      *)
(* made by a thread that holds the lock.                                   *)
C5_WritesUnderLock ==
    [][ (\/ proportional' # proportional
         \/ stop_timer_reset' # stop_timer_reset
         \/ prep_turn' # prep_turn)
        => lock = (IF pcCb' # pcCb THEN "cb" ELSE "ctl") ]_vars

(* C6: when the loop has ended on shutdown, the last command emitted (if   *)
(* any was) is a zero-velocity command.                                    *)
C6_ShutdownEndsWithZero ==
    (pcCtl = "exited" /\ lastCmd.kind # "none") => IsZeroVelocity(lastCmd)

(* C7: a command published by drive in a tick that began after 'stop' has  *)
(* linear velocity 0 and angular velocity 0.                               *)
C7_StopHoldsZero ==
    [][ (hist.tickAfterStop /\ Publishes) => IsZeroVelocity(lastCmd') ]_vars

(* C8: in a maneuver whose turn identifier is none of 0, 1, 2 no timed     *)
(* drive command is emitted and the vehicle stays stopped.                 *)
C8_UnrecognizedTurnStops ==
    (/\ pcCtl \in {"m_advance", "m_fwd", "m_turn", "c_lock", "c_write", "c_unlock"}
     /\ turn_idx \notin {0, 1, 2})
    => (hist.manCmds = 0 /\ IsZeroVelocity(lastCmd))

C10_NoDivisionByZero == hist.error # "ZeroDivisionError"

(* C11: a tick of drive that finds the lateral error None publishes a     *)
(* command with angular velocity 0, whatever the gains, the previous       *)
(* error and the previous output are.                                      *)
C11_NoneGivesZeroOmega ==
    [][ (pcCtl = "pid_test" /\ pcCtl' # pcCtl /\ IsNone(proportional))
        => /\ pcCtl' = "loop"
           /\ lastCmd'.kind = "twist"
           /\ lastCmd'.b = 0
           /\ twist'.omega = <<0, 1>> ]_vars

(* The loop steered on an error of 200 (angular velocity not 0), lane      *)
(* following was then switched off, the error became None and the last    *)
(* command published has angular velocity 0.                               *)
C11_Witness ==
    /\ pcCtl = "loop"
    /\ IsNone(proportional)
    /\ ~get_lane_following_flag
    /\ last_error = Some(200)
    /\ lastCmd.kind = "twist"
    /\ lastCmd.b = 0

C13_ProfileEmitted ==
    [][ /\ (pcCtl = "m_fwd" /\ pcCtl' # pcCtl)
            => (hist.manCmds = 0 /\ lastCmd' = WheelsCmd(600, 600, 6))
        /\ (pcCtl = "m_turn" /\ pcCtl' # pcCtl /\ turn_idx \in {0, 1, 2})
            => /\ lastCmd = WheelsCmd(600, 600, 6)
               /\ hist.manCmds = 1
               /\ lastCmd' = CASE turn_idx = 0 -> WheelsCmd(348, 852, 40)
                                [] turn_idx = 1 -> WheelsCmd(540, 660, 75)
                                [] turn_idx = 2 -> WheelsCmd(882, 318, 15)
        /\ (pcCtl \in {"m_turn", "c_lock", "c_write", "c_unlock"}
              /\ lastCmd' # lastCmd)
            => (pcCtl = "m_turn" /\ lastCmd'.kind = "wheels")
        /\ (ManeuverEnds /\ turn_idx \in {0, 1, 2})
            => (hist.manCmds = 2 /\ lastCmd.kind = "wheels") ]_vars

(* A right turn has emitted both of its commands. *)
C13_Witness ==
    /\ pcCtl = "c_lock"
    /\ turn_idx = RIGHT
    /\ hist.manCmds = 2
    /\ lastCmd = WheelsCmd(882, 318, 15)

(* C14: a continuous-mode tick of drive works on one snapshot of the      *)
(* lateral error: the value it stores in last_error is the value its       *)
(* proportional term was computed from, and no use of the error after      *)
(* the test against None finds None.                                       *)
C14_SingleSnapshot ==
    /\ pcCtl = "pid_out"
        => (~IsNone(last_error) /\ pid.P = -Val(last_error) * P)
    /\ hist.error # "TypeError"

(* C15: stop_timer_reset changes only by the callback's decrement (by     *)
(* one, and not below zero) and by the trigger's reset to the cooldown     *)
(* constant; no step of the main thread changes it; it stays within        *)
(* 0 .. STOP_TIMER_RESET_TIME.                                             *)
C15_TimerDiscipline ==
    [][ /\ (pcCb = "t_rw" /\ pcCb' # pcCb)
            => stop_timer_reset' =
                  IF stop_timer_reset = 0 THEN 0 ELSE stop_timer_reset - 1
        /\ stop_timer_reset' # stop_timer_reset
            => \/ pcCb = "t_rw" /\ pcCb' = "t_unlock"
               \/ /\ pcCb = "s_w1" /\ pcCb' = "s_w2"
                  /\ stop_timer_reset' = STOP_TIMER_RESET_TIME
        /\ pcCtl' # pcCtl => stop_timer_reset' = stop_timer_reset
        /\ stop_timer_reset \in 0 .. STOP_TIMER_RESET_TIME
        /\ stop_timer_reset' \in 0 .. STOP_TIMER_RESET_TIME ]_vars

(* After a trigger the counter has come all the way down, and a callback   *)
(* that found it at zero has left it at zero.                              *)
C15_Witness ==
    /\ pcCb = "t_unlock"
    /\ hist.triggered
    /\ cb_timer = 0
    /\ stop_timer_reset = 0

(* C16: a maneuver begins with a full stop, then the reset of the         *)
(* dead-reckoning accumulator, and both are done when the first timed      *)
(* drive command of the profile is emitted.                                *)
C16_StopAndResetFirst ==
    [][ /\ (pcCtl = "it_unlock" /\ pcCtl' # pcCtl /\ is_turning)
            => pcCtl' = "m_stop"
        /\ (pcCtl = "m_stop" /\ pcCtl' # pcCtl)
            => (pcCtl' = "m_reset" /\ lastCmd' = StopCmd(20) /\ hist.manCmds = 0)
        /\ (pcCtl = "m_reset" /\ pcCtl' # pcCtl)
            => /\ lastCmd = StopCmd(20)
               /\ controller'.pose = "zero"
               /\ hist.manCmds = 0
        /\ (pcCtl = "m_fwd" /\ pcCtl' # pcCtl)
            => /\ lastCmd = StopCmd(20)
               /\ controller.pose = "zero"
               /\ hist.manCmds = 0 ]_vars

(* The second maneuver has stopped the vehicle and zeroed the accumulator  *)
(* that the first maneuver had moved.                                      *)
C16_Witness ==
    /\ pcCtl = "m_decide"
    /\ hist.maneuvers = 2
    /\ lastCmd = StopCmd(20)
    /\ controller.pose = "zero"

(* C17: within a maneuver visited_stop_count is incremented only after     *)
(* the last timed drive command of the profile, never before or between    *)
(* the profile's commands.                                                 *)
C17_AdvanceAfterProfile ==
    [][ bot_state'.visited_stop_count # bot_state.visited_stop_count
        => /\ pcCtl \in {"c_lock", "c_write", "c_unlock"}
           /\ hist.manCmds = ExpectedCmds ]_vars

(* C18: the lock is held only inside the four short sections that copy    *)
(* or assign shared fields, never during the image analysis, the lane      *)
(* search or a maneuver; and whoever holds it can always take its next     *)
(* step towards the release, so that a thread waiting at an acquire is     *)
(* never waiting for a holder that cannot go on.                           *)
C18_LockHeldBriefly ==
    /\ lock = "cb" <=> pcCb \in {"t_rw", "t_unlock", "s_w1", "s_w2", "s_unlock"}
    /\ lock = "ctl" <=> pcCtl \in {"it_read", "it_unlock", "c_write", "c_unlock"}
    /\ lock = "cb" =>
          ENABLED (\/ cb_timer_update \/ cb_timer_release
                   \/ stopline_reset_timer \/ stopline_set_prep_turn
                   \/ stopline_release)
    /\ lock = "ctl" =>
          ENABLED (\/ is_turning_read \/ is_turning_release
                   \/ drive_clear_prep_turn \/ drive_clear_release)
    /\ (pcCb \in {"t_lock", "s_lock"} /\ pcCtl \in {"it_lock", "c_lock"})
          => lock = "free"

(* callback waits at its acquire while the main thread is inside the       *)
(* clear at the end of a maneuver.                                         *)
C18_Witness ==
    /\ pcCb = "s_lock"
    /\ lock = "ctl"
    /\ pcCtl = "c_write"

(* C19: the analysis goes on to write the trigger if and only if some     *)
(* region has area above 3000 and a bounding box with xmin left of and     *)
(* xmax right of the centre line, and the largest such region (the first   *)
(* of them in contour order when several are equally large) has its        *)
(* vertical centre ymin + height / 2 below row 390; otherwise it leaves    *)
(* prep_turn and stop_timer_reset as they are.  The trigger, when          *)
(* written, is stop_timer_reset = STOP_TIMER_RESET_TIME and prep_turn =    *)
(* TRUE.                                                                   *)
C19_StoplineDecision ==
    [][ LET Q(c) == /\ c.area > 3000
                    /\ 2 * c.xmin < img.width
                    /\ 2 * (c.xmin + c.width) > img.width
            n == Len(img.red)
            Largest(i) == /\ Q(img.red[i])
                          /\ \A j \in 1 .. n :
                                Q(img.red[j]) =>
                                   \/ img.red[j].area < img.red[i].area
                                   \/ img.red[j].area = img.red[i].area /\ j >= i
            Near(c) == 2 * c.ymin + c.height > 780
            Expected == \E i \in 1 .. n : Largest(i) /\ Near(img.red[i])
        IN /\ (pcCb = "stopline" /\ pcCb' # pcCb)
               => /\ pcCb' = (IF Expected THEN "s_lock" ELSE "lane")
                  /\ UNCHANGED <<prep_turn, stop_timer_reset>>
           /\ (pcCb = "s_w1" /\ pcCb' # pcCb)
               => stop_timer_reset' = STOP_TIMER_RESET_TIME
           /\ (pcCb = "s_w2" /\ pcCb' # pcCb) => prep_turn'
           /\ (prep_turn' # prep_turn \/ stop_timer_reset' > stop_timer_reset)
               => /\ pcCb \in {"s_w1", "s_w2"}
                  /\ Expected ]_vars

(* The analysis has run on a scene whose near region is not the largest    *)
(* qualifying one, and has raised nothing.                                 *)
C19_Witness ==
    /\ pcCb = "lane"
    /\ cb_timer = 0
    /\ img.red = << Red(5000, 200, 300, 400, 40), Red(8000, 200, 300, 300, 40) >>
    /\ ~prep_turn
    /\ stop_timer_reset = 0

(* C20: a maneuver, and with it the advance of the turn state, starts     *)
(* only out of a tick whose is_turning read prep_turn = TRUE under the     *)
(* lock; prep_turn becomes TRUE only in the trigger write of               *)
(* stopline_processing; and the maneuvers started never outnumber the      *)
(* triggers written.                                                       *)
C20_ManeuversNeedTriggers ==
    [][ /\ (pcCtl = "it_read" /\ pcCtl' # pcCtl)
            => (lock = "ctl" /\ is_turning' = prep_turn)
        /\ (pcCtl' = "m_stop" /\ pcCtl # "m_stop")
            => (pcCtl = "it_unlock" /\ is_turning)
        /\ bot_state' # bot_state => (pcCtl = "m_advance" /\ is_turning)
        /\ TriggerRaised => (pcCb = "s_w2" /\ lock = "cb")
        /\ hist'.maneuvers <= hist'.triggers ]_vars

(* The second maneuver starts, on the second trigger that counts.         *)
C20_Witness ==
    /\ pcCtl = "m_stop"
    /\ is_turning
    /\ hist.maneuvers = 2
    /\ hist.triggers = 2

====
